---- MODULE Spec2Model ----
(***************************************************************************)
(* Model of the "asks" listing endpoint                                    *)
(* src/src/api/endpoints/orders/get-orders-asks/v3.ts                      *)
(* (getOrdersAsksV3Options): request validation, filter assembly, keyset   *)
(* pagination with continuation tokens, limit clamp and the derived order  *)
(* status.                                                                 *)
(*                                                                         *)
(* Conventions.  An optional request parameter is a set: {} when absent,   *)
(* {v} when present.  A text (decoded continuation, rendered number) is a  *)
(* sequence of lexemes: the one-character strings "0".."9", ".", "x", "_", *)
(* and "0x", the prefix of a hash-shaped id; the decimal digits after "0x" *)
(* stand for the 64 hexadecimal digits of the id of order n, and ids       *)
(* compare as these numbers do.  Sort keys are kept in tenths so that a    *)
(* fractional cursor such as 1.5 is comparable: a price p has key 10*p,    *)
(* created_at is stored in tenths of a second.                             *)
(***************************************************************************)
EXTENDS Integers, Sequences, FiniteSets, TLC

VARIABLES
    orders,     \* the store's orders table: a set of rows, one per id
    query,      \* the request last sent by the client
    response,   \* the answer to it
    start,      \* the continuation parameter of the enumeration's first request
    issuedUnder,\* the sort mode of the response that issued the continuation
                \* now presented ("client" when the client made it up)
    pages,      \* ids returned so far by the enumeration, page after page
    tracked,    \* ids seen strictly past the cursor at some page request and,
                \* since then, matching the filter with an unchanged sort key
    rekeyed,    \* ids whose sort key was changed during the enumeration
    writes      \* number of writes made by concurrent writers

vars == <<orders, query, response, start, issuedUnder, pages, tracked, rekeyed, writes>>

(***************************************************************************)
(* Bounds and program constants                                            *)
(***************************************************************************)
MaxOrders == 3
MaxPrice == 2
MaxWrites == 1
BulkExtra == 2
MaxLimit == 100
DefaultLimit == 50
JoiMaxLimit == 1000

NULL == "null"

Min(a, b) == IF a <= b THEN a ELSE b

Has(opt) == opt /= {}
Val(opt) == CHOOSE v \in opt : TRUE

(***************************************************************************)
(* Texts                                                                   *)
(***************************************************************************)
Digits == <<"0", "1", "2", "3", "4", "5", "6", "7", "8", "9">>
DigitSet == {Digits[i] : i \in 1..10}
DigitVal(c) == CHOOSE d \in 0..9 : Digits[d + 1] = c

RECURSIVE NumText(_)
NumText(n) == IF n < 10 THEN <<Digits[n + 1]>>
              ELSE Append(NumText(n \div 10), Digits[(n % 10) + 1])

RECURSIVE DigitsToNat(_)
DigitsToNat(s) == IF s = <<>> THEN 0
                  ELSE 10 * DigitsToNat(SubSeq(s, 1, Len(s) - 1)) + DigitVal(s[Len(s)])

AllDigits(s) == Len(s) >= 1 /\ \A i \in 1..Len(s) : s[i] \in DigitSet

\* the text of order n's id
IdText(n) == <<"0x">> \o NumText(n)

\* extract(epoch from orders.created_at), as the row reaches the handler
EpochText(t) == IF t % 10 = 0 THEN NumText(t \div 10)
                ELSE NumText(t \div 10) \o <<".", Digits[(t % 10) + 1]>>

\* orders.price, a numeric(78, 0) column
PriceText(p) == NumText(p)

(***************************************************************************)
(* Status classifier: the CASE expression of the projection                *)
(***************************************************************************)
Fillabilities == {"fillable", "filled", "cancelled", "expired", "no-balance"}
Approvals == {"approved", "no-approval"}

\* variant: the approval test moved to the head of the CASE
StatusNoApprovalFirst(f, a) ==
    IF a = "no-approval" THEN "inactive"
    ELSE IF f = "filled" THEN "filled"
    ELSE IF f = "cancelled" THEN "cancelled"
    ELSE IF f = "expired" THEN "expired"
    ELSE IF f = "no-balance" THEN "inactive"
    ELSE "active"

\* CASE WHEN orders.fillability_status = 'filled' THEN 'filled' ... ELSE 'active' END
Status(f, a) ==
    IF f = "filled" THEN "filled"
    ELSE IF f = "cancelled" THEN "cancelled"
    ELSE IF f = "expired" THEN "expired"
    ELSE IF f = "no-balance" THEN "inactive"
    ELSE IF a = "no-approval" THEN "inactive"
    ELSE "active"

(***************************************************************************)
(* Continuation codec                                                      *)
(***************************************************************************)
\* buildContinuation: a reversible encoding of the text
BuildContinuation(text) == [enc |-> "base64", text |-> text]

\* the Joi rule continuation: string().pattern(regex.base64)
IsBase64(tok) == tok.enc = "base64"

\* /^\d+(.\d+)?_0x[a-f0-9]{64}$/ : the "." is unescaped and matches any one
\* character.  (The texts considered hold at most one "_" before the id.)
\* KeyMatches is the part \d+(.\d+)?
KeyMatches(k) ==
    \/ AllDigits(k)
    \/ \E i \in 2..(Len(k) - 1) :
          /\ k[i] \in DigitSet \cup {".", "x", "_"}
          /\ AllDigits(SubSeq(k, 1, i - 1))
          /\ AllDigits(SubSeq(k, i + 1, Len(k)))

MatchesCursorRegex(text) ==
    \E j \in 2..(Len(text) - 2) :
        /\ text[j] = "_"
        /\ text[j + 1] = "0x"
        /\ AllDigits(SubSeq(text, j + 2, Len(text)))
        /\ KeyMatches(SubSeq(text, 1, j - 1))

\* splitContinuation(token, regex): decode, check the shape, split at "_"
SplitContinuation(tok) ==
    IF IsBase64(tok) /\ MatchesCursorRegex(tok.text)
    THEN LET j == CHOOSE j \in 2..(Len(tok.text) - 2) : tok.text[j + 1] = "0x" IN
         [ok |-> TRUE,
          priceOrCreatedAt |-> SubSeq(tok.text, 1, j - 1),
          id |-> DigitsToNat(SubSeq(tok.text, j + 2, Len(tok.text)))]
    ELSE [ok |-> FALSE, priceOrCreatedAt |-> <<>>, id |-> 0]

\* The store's reading of the bound parameter $/priceOrCreatedAt/ as a number
\* (in tenths; the texts considered carry at most one fractional digit); a
\* text that is no numeric literal makes the query fail.
ParseNumeric(k) ==
    IF AllDigits(k) THEN [ok |-> TRUE, tenths |-> 10 * DigitsToNat(k)]
    ELSE IF /\ Len(k) >= 3
            /\ k[Len(k) - 1] = "."
            /\ AllDigits(SubSeq(k, 1, Len(k) - 2))
            /\ k[Len(k)] \in DigitSet
         THEN [ok |-> TRUE,
               tenths |-> 10 * DigitsToNat(SubSeq(k, 1, Len(k) - 2)) + DigitVal(k[Len(k)])]
         ELSE [ok |-> FALSE, tenths |-> 0]

(***************************************************************************)
(* Request validation (the Joi schema of validate.query)                   *)
(***************************************************************************)
\* variant: sortBy valid(price, createdAt) whatever the filter
SortByRuleNoCoupling(q) == TRUE

\* sortBy: when token exists, valid(price, createdAt), otherwise valid(createdAt)
SortByRule(q) ==
    Has(q.sortBy) => IF Has(q.token) THEN Val(q.sortBy) \in {"price", "createdAt"}
                     ELSE Val(q.sortBy) = "createdAt"

\* continuation: string().pattern(regex.base64)
ContinuationRule(q) == Has(q.continuation) => IsBase64(Val(q.continuation))

\* limit: number().integer().min(1).max(1000)
LimitRule(q) == Has(q.limit) => Val(q.limit) \in 1..JoiMaxLimit

\* .or("ids", "token", "contracts", "maker")
OrRule(q) == Has(q.ids.vals) \/ Has(q.token) \/ Has(q.contracts.vals) \/ Has(q.maker)

\* variant: the schema without .with("status", "maker")
WithRuleDropped(q) == TRUE

\* .with("status", "maker")
WithRule(q) == Has(q.status) => Has(q.maker)

\* the rules the request breaks, each under the error kind it stands for (the
\* schema reports them; which it names first when several are broken is the
\* validator's business)
Violations(q) ==
    (IF SortByRule(q) THEN {} ELSE {"InvalidSortForFilter"})
    \cup (IF ContinuationRule(q) THEN {} ELSE {"InvalidContinuation"})
    \cup (IF LimitRule(q) THEN {} ELSE {"InvalidLimit"})
    \cup (IF OrRule(q) /\ WithRule(q) THEN {} ELSE {"InvalidFilterCombination"})

\* the defaults Joi fills in: includePrivate false, sortBy createdAt, limit 50
WithDefaults(q) ==
    [q EXCEPT !.includePrivate = IF Has(@) THEN @ ELSE {FALSE},
              !.sortBy = IF Has(@) THEN @ ELSE {"createdAt"},
              !.limit = IF Has(@) THEN @ ELSE {DefaultLimit}]

(***************************************************************************)
(* The handler                                                             *)
(***************************************************************************)
ZeroAddress == "0x0000"

\* let orderStatusFilter = ...; switch (query.status) { case "inactive": ... }
OrderStatusFilter(q) ==
    IF Has(q.maker) /\ Has(q.status) /\ Val(q.status) = "inactive"
    THEN "potentiallyValid" ELSE "fillableApproved"

\* variant: the status filter pushed only when neither ids nor token is given
ConditionsNoStatus(q) ==
    LET c0 == <<"side">>
        c1 == IF Has(q.ids.vals) THEN Append(c0, IF q.ids.array THEN "idIn" ELSE "idEq") ELSE c0
        c2 == IF Has(q.token) THEN Append(c1, "tokenSetId") ELSE c1
        c3 == IF Has(q.contracts.vals) THEN Append(c2, "contractIn") ELSE c2
        c4 == IF Has(q.maker) THEN Append(c3, "maker") ELSE c3
        c5 == IF ~Val(q.includePrivate) THEN Append(c4, "public") ELSE c4
        c6 == IF Has(q.ids.vals) \/ Has(q.token) THEN c5 ELSE Append(c5, OrderStatusFilter(q))
    IN  IF Has(q.continuation)
        THEN Append(c6, IF Val(q.sortBy) = "price" THEN "afterPrice" ELSE "beforeCreatedAt")
        ELSE c6

\* const conditions: string[] and the pushes onto it, in the handler's order
Conditions(q) ==
    LET c0 == <<"side">>
        c1 == IF Has(q.ids.vals) THEN Append(c0, IF q.ids.array THEN "idIn" ELSE "idEq") ELSE c0
        c2 == IF Has(q.token) THEN Append(c1, "tokenSetId") ELSE c1
        c3 == IF Has(q.contracts.vals) THEN Append(c2, "contractIn") ELSE c2
        c4 == IF Has(q.maker) THEN Append(c3, "maker") ELSE c3
        c5 == IF ~Val(q.includePrivate) THEN Append(c4, "public") ELSE c4
        c6 == Append(c5, OrderStatusFilter(q))
    IN  IF Has(q.continuation)
        THEN Append(c6, IF Val(q.sortBy) = "price" THEN "afterPrice" ELSE "beforeCreatedAt")
        ELSE c6

\* variant: (orders.price, orders.id) >= ($/priceOrCreatedAt/, $/id/)
AfterPriceNonStrict(o, k, id) == 10 * o.price > k \/ (10 * o.price = k /\ o.id >= id)

\* (orders.price, orders.id) > ($/priceOrCreatedAt/, $/id/)
AfterPrice(o, k, id) == 10 * o.price > k \/ (10 * o.price = k /\ o.id > id)

\* variant: orders.created_at < to_timestamp($/priceOrCreatedAt/), without the id
BeforeCreatedAtKeyOnly(o, k, id) == o.created_at < k

\* (orders.created_at, orders.id) < (to_timestamp($/priceOrCreatedAt/), $/id/)
BeforeCreatedAt(o, k, id) == o.created_at < k \/ (o.created_at = k /\ o.id < id)

\* one clause of the WHERE conjunction, on row o; k, id: the decoded cursor
Holds(c, o, q, k, id) ==
    CASE c = "side" -> o.side = "sell"
      [] c = "idEq" -> o.id \in q.ids.vals
      [] c = "idIn" -> o.id \in q.ids.vals
      [] c = "tokenSetId" -> o.token_set_id = "token:" \o Val(q.token)
      [] c = "contractIn" -> o.contract \in q.contracts.vals
      [] c = "maker" -> o.maker = Val(q.maker)
      [] c = "public" -> o.taker = ZeroAddress \/ o.taker = NULL
      [] c = "fillableApproved" ->
            o.fillability_status = "fillable" /\ o.approval_status = "approved"
      [] c = "potentiallyValid" ->
            \/ o.fillability_status = "no-balance"
            \/ (o.fillability_status = "fillable" /\ o.approval_status /= "approved")
      [] c = "afterPrice" -> AfterPrice(o, k, id)
      [] c = "beforeCreatedAt" -> BeforeCreatedAt(o, k, id)

\* WHERE (c1) AND (c2) AND ... , for the conditions cs
Where(cs, o, q, k, id) == \A i \in 1..Len(cs) : Holds(cs[i], o, q, k, id)

\* variant: ORDER BY orders.created_at DESC, orders.id (the id ascending)
OrderByIdAscending(a, b, sortBy) ==
    IF sortBy = "price"
    THEN a.price < b.price \/ (a.price = b.price /\ a.id < b.id)
    ELSE a.created_at > b.created_at \/ (a.created_at = b.created_at /\ a.id < b.id)

\* ORDER BY orders.price, orders.id  /  ORDER BY orders.created_at DESC, orders.id DESC
\* : a comes before b
OrderBy(a, b, sortBy) ==
    IF sortBy = "price"
    THEN a.price < b.price \/ (a.price = b.price /\ a.id < b.id)
    ELSE a.created_at > b.created_at \/ (a.created_at = b.created_at /\ a.id > b.id)

\* variant: the limit left as requested
ClampNone(limit) == limit

\* query.limit = Math.min(query.limit, 100)
Clamp(limit) == Min(limit, MaxLimit)

\* redb.manyOrNone(baseQuery, query): the rows of the WHERE, in ORDER BY order,
\* cut at LIMIT
ManyOrNone(store, q, k, id) ==
    LET cs == Conditions(q)
        matching == {o \in store : Where(cs, o, q, k, id)}
        ranked == {<<Cardinality({p \in matching : OrderBy(p, o, Val(q.sortBy))}) + 1, o>> :
                      o \in matching}
        n == Min(Clamp(Val(q.limit)), Cardinality(matching))
    IN  [i \in 1..n |-> (CHOOSE pr \in ranked : pr[1] = i)[2]]

\* variant: a continuation after every page that is not empty
ContinuationAlways(rawResult, q) ==
    IF Len(rawResult) > 0
    THEN LET last == rawResult[Len(rawResult)] IN
         {BuildContinuation(
              (IF Val(q.sortBy) = "price" THEN PriceText(last.price)
               ELSE EpochText(last.created_at)) \o <<"_">> \o IdText(last.id))}
    ELSE {}

\* let continuation = null; if (rawResult.length === query.limit) { ... }
Continuation(rawResult, q) ==
    IF Len(rawResult) = Clamp(Val(q.limit))
    THEN LET last == rawResult[Len(rawResult)] IN
         {BuildContinuation(
              (IF Val(q.sortBy) = "price" THEN PriceText(last.price)
               ELSE EpochText(last.created_at)) \o <<"_">> \o IdText(last.id))}
    ELSE {}

\* rawResult.map(...): the API shape of one row
Project(r) ==
    [id |-> r.id, side |-> r.side, status |-> Status(r.fillability_status, r.approval_status),
     tokenSetId |-> r.token_set_id, contract |-> r.contract, maker |-> r.maker,
     taker |-> r.taker, price |-> r.price, createdAt |-> r.created_at]

\* a request that fails: by validation or the codec before the query is sent
\* (queried FALSE), or by the store on the query (queried TRUE)
Failure(kinds, queried) ==
    [status |-> "error", errors |-> kinds, orders |-> <<>>, continuation |-> {},
     queried |-> queried]

\* handler: async (request) => {...}, on the validated query
Handler(store, q) ==
    LET split == IF Has(q.continuation) THEN SplitContinuation(Val(q.continuation))
                 ELSE [ok |-> TRUE, priceOrCreatedAt |-> <<"0">>, id |-> 0]
        cursor == ParseNumeric(split.priceOrCreatedAt)
        rawResult == ManyOrNone(store, q, cursor.tenths, split.id)
    IN  IF ~split.ok THEN Failure({"InvalidContinuation"}, FALSE)
        ELSE IF ~cursor.ok THEN Failure({"UpstreamQueryFailure"}, TRUE)
        ELSE [status |-> "ok", errors |-> {},
              orders |-> [i \in 1..Len(rawResult) |-> Project(rawResult[i])],
              continuation |-> Continuation(rawResult, q),
              queried |-> TRUE]

\* the route: validate.query, then the handler
Serve(store, q) ==
    IF Violations(q) /= {} THEN Failure(Violations(q), FALSE)
    ELSE Handler(store, WithDefaults(q))

(***************************************************************************)
(* Inputs: rows and requests                                               *)
(***************************************************************************)
Stamps == {10, 15}
WrittenPrices == {1, 2}
PageSizes == {1, 2}

NoQuery ==
    [ids |-> [array |-> FALSE, vals |-> {}], token |-> {}, maker |-> {},
     contracts |-> [array |-> FALSE, vals |-> {}], status |-> {}, includePrivate |-> {},
     sortBy |-> {}, continuation |-> {}, limit |-> {}]

Idle == [status |-> "idle", errors |-> {}, orders |-> <<>>, continuation |-> {},
         queried |-> FALSE]

\* a listing of token t1 by maker m1, open to any taker
Listing(id, price, created_at, f, a) ==
    [id |-> id, side |-> "sell", token_set_id |-> "token:t1", contract |-> "k1",
     maker |-> "m1", taker |-> ZeroAddress, fillability_status |-> f,
     approval_status |-> a, price |-> price, created_at |-> created_at]

\* the listings with id id: of every price and stamp, fillable or without balance
Rows(id, prices) ==
    {Listing(id, p, c, f, "approved") :
        p \in prices, c \in Stamps, f \in {"fillable", "no-balance"}}

PagingRows(id) == Rows(id, 1..MaxPrice)

\* the rows concurrent writers leave behind
WrittenRows(id) == Rows(id, WrittenPrices)

\* every table of n rows with ids 1..n
RECURSIVE Tables(_, _)
Tables(n, prices) == IF n = 0 THEN {{}}
                     ELSE {t \cup {r} : t \in Tables(n - 1, prices), r \in Rows(n, prices)}

\* one order in every combination of the filtered columns
ProbeRows(id, price, created_at) ==
    {[id |-> id, side |-> sd, token_set_id |-> ts, contract |-> c, maker |-> m,
      taker |-> tk, fillability_status |-> f, approval_status |-> a,
      price |-> price, created_at |-> created_at] :
        sd \in {"sell", "buy"}, ts \in {"token:t1", "token:t2"}, c \in {"k1", "k2"},
        m \in {"m1", "m2"}, tk \in {ZeroAddress, NULL, "0xtaker"},
        f \in Fillabilities, a \in Approvals}

\* a table of n listings of which the first k have no balance
BulkTable(n, k) ==
    {Listing(i, 1 + (i % 2), 10 + 5 * (i % 3), IF i <= k THEN "no-balance" ELSE "fillable",
             "approved") : i \in 1..n}

PagingQueries ==
    {[NoQuery EXCEPT !.token = {"t1"}, !.sortBy = {s}, !.limit = {l}] :
        s \in {"price", "createdAt"}, l \in PageSizes}
    \cup {[NoQuery EXCEPT !.maker = {"m1"}, !.status = {"inactive"}, !.limit = {l}] :
        l \in PageSizes}

\* requests in every combination of the filter parameters
FilterQueries ==
    {[NoQuery EXCEPT !.ids = i, !.token = t, !.maker = m, !.contracts = c, !.status = st,
                     !.includePrivate = ip, !.sortBy = sb] :
        i \in {[array |-> FALSE, vals |-> {}], [array |-> FALSE, vals |-> {1}],
               [array |-> TRUE, vals |-> {1, 2}]},
        t \in {{}, {"t1"}}, m \in {{}, {"m1"}},
        c \in {[array |-> FALSE, vals |-> {}], [array |-> FALSE, vals |-> {"k1"}]},
        st \in {{}, {"active"}, {"inactive"}}, ip \in {{}, {TRUE}},
        sb \in {{}, {"price"}, {"createdAt"}}}

\* continuation parameters a client may present
ForgedKeys == {<<"1">>, <<"2">>, <<"1", "5">>, <<"1", ".", "5">>, <<"1", "x", "5">>,
               <<"x">>, <<>>}
ForgedIds == {IdText(1), IdText(2), <<"0x">>, <<"1">>}
ForgedTexts == {k \o <<"_">> \o i : k \in ForgedKeys, i \in ForgedIds}
                  \cup {<<"1">> \o IdText(1)}
ForgedTokens == {BuildContinuation(t) : t \in ForgedTexts}
                   \cup {[enc |-> "plain", text |-> <<"1", "_">> \o IdText(1)]}

ResumedQueries ==
    {[NoQuery EXCEPT !.token = {"t1"}, !.sortBy = {s}, !.limit = {l}, !.continuation = {c}] :
        s \in {"price", "createdAt"}, l \in PageSizes, c \in ForgedTokens}

BulkQueries ==
    {[NoQuery EXCEPT !.token = {"t1"}, !.sortBy = sb, !.limit = l] :
        sb \in {{}, {"price"}},
        l \in {{}, {MaxLimit - 1}, {MaxLimit}, {MaxLimit + 1}, {JoiMaxLimit}, {JoiMaxLimit + 1}}}

(***************************************************************************)
(* Operations                                                              *)
(***************************************************************************)
Ids(rows) == [i \in 1..Len(rows) |-> rows[i].id]

\* the filter of request q without its cursor
Matches(o, q) ==
    LET f == WithDefaults([q EXCEPT !.continuation = {}]) IN Where(Conditions(f), o, f, 0, 0)

SortKey(o, q) == IF WithDefaults(q).sortBy = {"price"} THEN 10 * o.price ELSE o.created_at

\* the cursor a continuation token stands for
Cursor(tok) ==
    LET split == SplitContinuation(tok)
    IN  [key |-> ParseNumeric(split.priceOrCreatedAt).tenths, id |-> split.id]

\* (key, id) lies strictly past the cursor in the order of q
StrictlyPast(key, id, cur, q) ==
    IF WithDefaults(q).sortBy = {"price"}
    THEN key > cur.key \/ (key = cur.key /\ id > cur.id)
    ELSE key < cur.key \/ (key = cur.key /\ id < cur.id)

\* rows that match q and lie strictly past its cursor, if it has one
Ahead(store, q) ==
    LET cur == IF Has(q.continuation) THEN Cursor(Val(q.continuation))
               ELSE [key |-> 0, id |-> 0]
    IN  {o.id : o \in {r \in store :
            /\ Matches(r, q)
            /\ Has(q.continuation) => StrictlyPast(SortKey(r, q), r.id, cur, q)}}

\* The client sends request q, the first of its enumeration.  (The endpoint
\* keeps nothing between requests, so one enumeration per behaviour loses none.)
Send(q) ==
    LET r == Serve(orders, q) IN
    /\ response = Idle
    /\ query' = q
    /\ response' = r
    /\ start' = q.continuation
    /\ issuedUnder' = "client"
    /\ pages' = Ids(r.orders)
    /\ tracked' = IF r.status = "ok" THEN Ahead(orders, q) ELSE {}
    /\ rekeyed' = {}
    /\ UNCHANGED <<orders, writes>>

RequestFirstPage == \E q \in PagingQueries : Send(q)

RequestResumed == \E q \in ResumedQueries : Send(q)

RequestFiltered == \E q \in FilterQueries : Send(q)

RequestBulk == \E q \in BulkQueries : Send(q)

\* The client repeats its request with the continuation it was given.
FollowContinuation ==
    /\ response.status = "ok"
    /\ Has(response.continuation)
    /\ LET q == [query EXCEPT !.continuation = response.continuation]
           r == Serve(orders, q)
       IN  /\ query' = q
           /\ response' = r
           /\ pages' = pages \o Ids(r.orders)
           /\ tracked' = IF r.status = "ok" THEN tracked \cup (Ahead(orders, q) \ rekeyed)
                         ELSE tracked
    /\ issuedUnder' = Val(WithDefaults(query).sortBy)
    /\ UNCHANGED <<orders, start, rekeyed, writes>>

\* The client presents the continuation it was given with the other sortBy.
ResumeOtherSort ==
    /\ response.status = "ok"
    /\ Has(response.continuation)
    /\ Has(query.token)
    /\ issuedUnder = "client"
    /\ LET was == Val(WithDefaults(query).sortBy)
           q == [query EXCEPT !.continuation = response.continuation,
                              !.sortBy = IF was = "price" THEN {"createdAt"} ELSE {"price"}]
           r == Serve(orders, q)
       IN  /\ query' = q
           /\ response' = r
           /\ issuedUnder' = was
           /\ pages' = Ids(r.orders)
           /\ start' = q.continuation
           /\ tracked' = IF r.status = "ok" THEN Ahead(orders, q) ELSE {}
    /\ UNCHANGED <<orders, rekeyed, writes>>

\* A concurrent writer inserts a row.
InsertOrder ==
    /\ writes < MaxWrites
    /\ Cardinality(orders) < MaxOrders
    /\ \E r \in WrittenRows(Cardinality(orders) + 1) : orders' = orders \cup {r}
    /\ writes' = writes + 1
    /\ UNCHANGED <<query, response, start, issuedUnder, pages, tracked, rekeyed>>

\* A concurrent writer updates a row: its price or its fillability.
UpdateOrder ==
    /\ writes < MaxWrites
    /\ \E o \in orders : \E n \in WrittenRows(o.id) :
          /\ n /= o
          /\ n.created_at = o.created_at
          /\ orders' = (orders \ {o}) \cup {n}
          /\ rekeyed' = IF SortKey(n, query) /= SortKey(o, query)
                        THEN rekeyed \cup {o.id} ELSE rekeyed
          /\ tracked' = IF \/ SortKey(n, query) /= SortKey(o, query)
                           \/ Matches(n, query) /= Matches(o, query)
                        THEN tracked \ {o.id} ELSE tracked
    /\ writes' = writes + 1
    /\ UNCHANGED <<query, response, start, issuedUnder, pages>>

(***************************************************************************)
(* Specifications                                                          *)
(***************************************************************************)
InitClient ==
    /\ query = NoQuery
    /\ response = Idle
    /\ start = {}
    /\ issuedUnder = "client"
    /\ pages = <<>>
    /\ tracked = {}
    /\ rekeyed = {}
    /\ writes = 0

\* enumerations of a table that concurrent writers change
Init ==
    /\ orders \in {t \in Tables(MaxOrders - 1, WrittenPrices) :
                      \A o \in t : o.fillability_status = "fillable"}
    /\ InitClient

Next == RequestFirstPage \/ FollowContinuation \/ InsertOrder \/ UpdateOrder

Spec == Init /\ [][Next]_vars

\* enumerations of a table that does not change
InitSnapshot ==
    /\ orders \in UNION {Tables(n, 1..MaxPrice) : n \in 0..MaxOrders}
    /\ InitClient

NextSnapshot == RequestFirstPage \/ FollowContinuation

SpecSnapshot == InitSnapshot /\ [][NextSnapshot]_vars

\* enumerations resumed from a continuation the client presents
InitResume ==
    /\ orders \in Tables(2, 1..MaxPrice)
    /\ InitClient

NextResume == RequestResumed \/ FollowContinuation \/ ResumeOtherSort

SpecResume == InitResume /\ [][NextResume]_vars

\* single requests over every combination of filters and columns
InitFilter ==
    /\ orders \in {{r, Listing(2, 1, 10, "fillable", "approved")} : r \in ProbeRows(1, 2, 15)}
    /\ InitClient

NextFilter == RequestFiltered

SpecFilter == InitFilter /\ [][NextFilter]_vars

\* enumerations of tables about as long as the largest page
InitBulk ==
    /\ orders \in {BulkTable(n, k) : n \in (MaxLimit - 1)..(MaxLimit + BulkExtra), k \in 0..2}
    /\ InitClient

NextBulk == RequestBulk \/ FollowContinuation

SpecBulk == InitBulk /\ [][NextBulk]_vars

(***************************************************************************)
(* Properties                                                              *)
(***************************************************************************)
Accepted == response.status = "ok"
Finished == Accepted /\ ~Has(response.continuation)
SortMode == Val(WithDefaults(query).sortBy)
Row(id) == CHOOSE o \in orders : o.id = id
Count(id, seq) == Cardinality({i \in 1..Len(seq) : seq[i] = id})
Last(seq) == seq[Len(seq)]

\* a precedes b in the order of the mode: ascending (price, id), or
\* descending (createdAt, id)
Precedes(aKey, aId, bKey, bId, mode) ==
    IF mode = "price" THEN aKey < bKey \/ (aKey = bKey /\ aId < bId)
    ELSE aKey > bKey \/ (aKey = bKey /\ aId > bId)

KeyOf(o, mode) == IF mode = "price" THEN o.price ELSE o.created_at

\* C1: over a table that does not change, an enumeration begun without a
\* continuation and followed until the continuation is null has returned
\* exactly the rows matching the filter, each once, in the order of the sort
\* mode: ascending (price, id) or descending (createdAt, id).
C1_EnumerationComplete ==
    (Finished /\ start = {}) =>
        /\ {pages[i] : i \in 1..Len(pages)} = {o.id : o \in {r \in orders : Matches(r, query)}}
        /\ \A i \in 1..Len(pages) : Count(pages[i], pages) = 1
        /\ \A i \in 1..(Len(pages) - 1) :
              Precedes(KeyOf(Row(pages[i]), SortMode), pages[i],
                       KeyOf(Row(pages[i + 1]), SortMode), pages[i + 1], SortMode)

\* a finished enumeration of three pages with two rows of one price
C1_Witness ==
    /\ Finished /\ start = {} /\ Has(query.continuation)
    /\ SortMode = "price"
    /\ Len(pages) >= 3
    /\ \E i \in 1..(Len(pages) - 1) : Row(pages[i]).price = Row(pages[i + 1]).price

\* C2: while writers insert and update rows between the pages, a row that was
\* strictly past the cursor when a page was requested, and has matched the
\* filter with the same sort key since, has been returned once or is still
\* past the cursor now held (and is returned once when the enumeration ends);
\* no row whose sort key was left alone is returned twice.
C2_NoSkipNoRepeat ==
    Accepted =>
        /\ \A id \in tracked :
              \/ Count(id, pages) = 1
              \/ /\ Count(id, pages) = 0
                 /\ Has(response.continuation)
                 /\ StrictlyPast(SortKey(Row(id), query), id,
                                 Cursor(Val(response.continuation)), query)
        /\ \A o \in orders : o.id \notin rekeyed => Count(o.id, pages) <= 1

\* an enumeration finished after a write made between its pages changed the
\* sort key of a row, beside a row that kept its own
C2_Witness ==
    /\ Finished /\ Has(query.continuation)
    /\ writes >= 1 /\ rekeyed /= {} /\ tracked /= {}
    /\ Len(pages) >= 3

\* C3: the records returned to a request with a continuation lie strictly past
\* the cursor it decodes to: (price, id) greater under price sort,
\* (createdAt, id) less under createdAt sort.
C3_StrictlyPastCursor ==
    (Accepted /\ Has(query.continuation)) =>
        \A i \in 1..Len(response.orders) :
            LET o == response.orders[i]
                cur == Cursor(Val(query.continuation))
            IN  IF SortMode = "price"
                THEN 10 * o.price > cur.key \/ (10 * o.price = cur.key /\ o.id > cur.id)
                ELSE o.createdAt < cur.key \/ (o.createdAt = cur.key /\ o.id < cur.id)

\* a client's cursor answered with a record of the cursor's own price
C3_Witness ==
    /\ Accepted /\ Has(query.continuation) /\ issuedUnder = "client"
    /\ SortMode = "price"
    /\ \E i \in 1..Len(response.orders) :
          10 * response.orders[i].price = Cursor(Val(query.continuation)).key

\* the shape numeric[.numeric]_id
NumericShape(text) ==
    \E j \in 2..(Len(text) - 2) :
        /\ text[j] = "_" /\ text[j + 1] = "0x"
        /\ AllDigits(SubSeq(text, j + 2, Len(text)))
        /\ LET k == SubSeq(text, 1, j - 1) IN
           \/ AllDigits(k)
           \/ \E i \in 2..(Len(k) - 1) :
                 k[i] = "." /\ AllDigits(SubSeq(k, 1, i - 1)) /\ AllDigits(SubSeq(k, i + 1, Len(k)))

\* C4: a continuation that is undecodable, not of the shape numeric[.numeric]_id,
\* or issued under the other sort mode is rejected with InvalidContinuation
\* before any query is executed.
C4_MalformedRejected ==
    (Has(query.continuation) /\ response.status /= "idle") =>
        LET tok == Val(query.continuation) IN
        (\/ ~IsBase64(tok)
         \/ ~NumericShape(tok.text)
         \/ issuedUnder \notin {"client", SortMode}) =>
            /\ response.status = "error"
            /\ "InvalidContinuation" \in response.errors
            /\ ~response.queried

\* C5: a request with none of ids, token, contracts, maker, and a request with
\* status but no maker, fail with InvalidFilterCombination before any query.
C5_FilterCombination ==
    response.status /= "idle" =>
        ((\/ (query.ids.vals = {} /\ query.token = {} /\ query.contracts.vals = {}
                /\ query.maker = {})
          \/ (query.status /= {} /\ query.maker = {})) =>
            /\ response.status = "error"
            /\ "InvalidFilterCombination" \in response.errors
            /\ ~response.queried)

\* a request anchored by a token, with status and no maker, was rejected
C5_Witness ==
    /\ query.token /= {} /\ query.status /= {} /\ query.maker = {}
    /\ query.sortBy = {}
    /\ response.status = "error" /\ ~response.queried

PageSorted(mode) ==
    \A i \in 1..(Len(response.orders) - 1) :
        LET a == response.orders[i]
            b == response.orders[i + 1]
        IN  IF mode = "price" THEN Precedes(a.price, a.id, b.price, b.id, mode)
            ELSE Precedes(a.createdAt, a.id, b.createdAt, b.id, mode)

\* C6: sortBy=price without a token filter fails with InvalidSortForFilter
\* before any query; a page is in price order only when a token filter is
\* active and price was asked for, and in createdAt order otherwise.
C6_SortForFilter ==
    /\ (response.status /= "idle" /\ query.sortBy = {"price"} /\ query.token = {}) =>
           /\ response.status = "error"
           /\ "InvalidSortForFilter" \in response.errors
           /\ ~response.queried
    /\ Accepted =>
           IF query.token /= {} /\ query.sortBy = {"price"} THEN PageSorted("price")
           ELSE PageSorted("createdAt")

\* price sort asked of a maker's orders, with no token, was rejected
C6_Witness ==
    /\ query.sortBy = {"price"} /\ query.token = {} /\ query.maker /= {}
    /\ query.status = {}
    /\ response.status = "error" /\ ~response.queried

Requested == IF Has(query.limit) THEN Val(query.limit) ELSE 50

\* C7: an accepted request of any page size (1 to 1000, 50 by default) is
\* answered with at most min(page size, 100) orders.
C7_LimitClamp ==
    Accepted => /\ Len(response.orders) <= Requested
                /\ Len(response.orders) <= 100

\* a page of 100 orders out of more than 100 matching, 1000 having been asked
C7_Witness ==
    /\ Accepted /\ query.limit = {1000}
    /\ Len(response.orders) = 100
    /\ Cardinality({o \in orders : Matches(o, query)}) > 100

\* C8: the continuation is non-null exactly when the page holds as many rows
\* as the clamped limit; it then encodes the sort key and the id of the last
\* row of the page.
C8_ContinuationEmission ==
    Accepted =>
        /\ Has(response.continuation) <=>
              Len(response.orders) = (IF Requested <= 100 THEN Requested ELSE 100)
        /\ Has(response.continuation) =>
              LET tok == Val(response.continuation)
                  last == Last(response.orders)
              IN  /\ IsBase64(tok)
                  /\ NumericShape(tok.text)
                  /\ Cursor(tok).id = last.id
                  /\ Cursor(tok).key =
                        (IF SortMode = "price" THEN 10 * last.price ELSE last.createdAt)

\* a full page of 100 rows, 1000 having been asked, carries a continuation
C8_Witness ==
    /\ Accepted /\ query.limit = {1000}
    /\ Len(response.orders) = 100
    /\ Has(response.continuation)

\* C9: the classifier gives every pair of flags one label of the five, by the
\* precedence filled, cancelled, expired, then no-balance or no-approval as
\* inactive, then active.
C9_ClassifierTotal ==
    \A o \in orders :
        LET f == o.fillability_status
            a == o.approval_status
            l == Status(f, a)
        IN  /\ l \in {"filled", "cancelled", "expired", "inactive", "active"}
            /\ l = "filled" <=> f = "filled"
            /\ l = "cancelled" <=> f = "cancelled"
            /\ l = "expired" <=> f = "expired"
            /\ l = "inactive" <=> (f = "no-balance" \/ (f = "fillable" /\ a = "no-approval"))
            /\ l = "active" <=> (f = "fillable" /\ a = "approved")

\* a request answered over a table that holds a filled order without approval
C9_Witness ==
    /\ \E o \in orders : o.fillability_status = "filled" /\ o.approval_status = "no-approval"
    /\ query.maker /= {} /\ Accepted

\* C10: every order returned is a sell order whose flags satisfy the status
\* predicate of the request: fillable and approved (derived status active)
\* unless maker is present with status inactive, and then no-balance, or
\* fillable and not approved (derived status inactive); no filled, cancelled
\* or expired order is returned.
C10_StatusPredicate ==
    Accepted =>
        \A i \in 1..Len(response.orders) :
            LET r == response.orders[i]
                o == Row(r.id)
            IN  /\ r.side = "sell"
                /\ r.status \notin {"filled", "cancelled", "expired"}
                /\ IF query.maker /= {} /\ query.status = {"inactive"}
                   THEN /\ \/ o.fillability_status = "no-balance"
                           \/ (o.fillability_status = "fillable"
                                  /\ o.approval_status /= "approved")
                        /\ r.status = "inactive"
                   ELSE /\ o.fillability_status = "fillable"
                        /\ o.approval_status = "approved"
                        /\ r.status = "active"

\* a maker's inactive orders asked for by id and token, one returned
C10_Witness ==
    /\ Accepted /\ query.maker /= {} /\ query.status = {"inactive"}
    /\ query.ids.vals /= {} /\ query.token /= {}
    /\ \E i \in 1..Len(response.orders) : response.orders[i].status = "inactive"

====
